---- MODULE Spec2Model ----
(***************************************************************************)
(* A model of the Winwheel class of src/src/lib/Winwheel.ts: the segment   *)
(* array and its boundaries (constructor, updateSegmentSizes, addSegment,  *)
(* deleteSegment), hit-testing (getSegmentNumberAt, getSegmentAt), the     *)
(* pointer read-out (getIndicatedSegmentNumber, getIndicatedSegment), the  *)
(* rotation normalisation (getRotationPosition), the animation            *)
(* (computeAnimation, startAnimation, stopAnimation, the tweens gsap runs  *)
(* and their callbacks winwheelAnimationLoop and winwheelStopAnimation),   *)
(* the random stop angle (getRandomForSegment) and the image requests of   *)
(* the segmentImage draw mode.                                             *)
(*                                                                         *)
(* Numbers.  A JavaScript number that holds an angle is modelled as an     *)
(* exact fixed-point value: the integer a stands for a / Scale degrees.    *)
(* Scale is a multiple of every divisor the code can divide by within the  *)
(* bounds (the count of segments without a size, and 2 for a mid-angle),   *)
(* so every quotient of the model is exact.  IEEE rounding is not          *)
(* modelled.  Infinity (a division by zero) is a value of its own.         *)
(***************************************************************************)
EXTENDS Integers, Sequences, FiniteSets, TLC

(* ------------------------------ bounds --------------------------------- *)
\* The largest numSegments addSegment is called at; a wheel is constructed
\* with up to MaxSegs + 1 segments.
MaxSegs == 3

\* The largest |rotationAngle| the rotation specification SpecRot draws.
MaxRot == 800

\* The number of updates gsap makes before a tween completes.
TweenSteps == 2

(* --------------------------- number model ------------------------------ *)
RECURSIVE Factorial(_)
Factorial(n) == IF n <= 1 THEN 1 ELSE n * Factorial(n - 1)

\* Fixed-point unit: one degree is Scale units.
Scale == 2 * Factorial(MaxSegs + 1)

Deg(d) == d * Scale

\* JavaScript's Infinity, the value of arcLeft / 0 for arcLeft > 0.
Infinity == Deg(360) * 1000

IsFinite(a) == a # Infinity

\* a + b on JavaScript numbers (Infinity absorbs every finite number).
Plus(a, b) == IF a = Infinity \/ b = Infinity THEN Infinity ELSE a + b

\* a / n for a > 0 and an integer n >= 0.
Divide(a, n) == IF n = 0 THEN Infinity ELSE a \div n

\* Math.round on a fixed-point value, giving whole degrees: floor(a + 0.5).
MathRound(a) == (2 * a + Scale) \div (2 * Scale)

\* Math.ceil of an integer quotient a / b, b > 0.
MathCeilDiv(a, b) == -((-a) \div b)

Abs(a) == IF a < 0 THEN -a ELSE a

(* --------------------------- segment model ----------------------------- *)
\* size: null of Segment.defaultOptions.
Null == -1000000

\* A string-valued option that is null.
NullString == "null"

\* new Segment(): the default options.  text is the string of the segment's
\* text as the sequence of its characters, image the URL of the segment's
\* image, imgData the Image element made for it.
DefaultOptions ==
    [size |-> Null, text |-> <<>>, image |-> NullString, imgData |-> NullString]

\* The options a caller passes to addSegment or lists in options.segments.
CallerOptions ==
    [size : {0, 180, 359, Null}, text : {<<"t">>}, image : {NullString},
     imgData : {NullString}]

\* new Segment(options): the options merged over the defaults, angles 0.
Segment(options) ==
    [kind |-> "segment", options |-> options, startAngle |-> 0, endAngle |-> 0]

\* An array slot that holds undefined (never assigned, or unset by deleteSegment).
Undefined ==
    [kind |-> "undefined", options |-> DefaultOptions, startAngle |-> 0, endAngle |-> 0]

\* The null that getSegmentAt returns when no segment is found.
NullSegment ==
    [kind |-> "null", options |-> DefaultOptions, startAngle |-> 0, endAngle |-> 0]

IsDefined(s) == s.kind = "segment"

\* The array indices the model keeps.
MaxIdx == MaxSegs + 1

Positions == 1..MaxIdx

VARIABLES
    numSegments,      \* options.numSegments
    segments,         \* segments[1..]: the Segment objects (slot 0 is never used)
    segLength,        \* segments.length
    optSegments,      \* options.segments: the per-segment options list
    optAnimation,     \* options.animation: the animation the caller specified
    drawMode,         \* options.drawMode
    rotationAngle,    \* options.rotationAngle, whole degrees
    pointerAngle,     \* options.pointerAngle, whole degrees
    innerRadius,      \* options.innerRadius
    outerRadius,      \* options.outerRadius
    textOptions,      \* options.textFontSize, textOrientation, textAlignment,
                      \* textDirection, textMargin, textFillStyle, textStrokeStyle
    animation,        \* animation.options and animation._stopAngle
    tween,            \* the tween gsap.to returned to startAnimation
    ownProperties,    \* the wheel object's own numeric properties gsap tweens
    winwheelToDrawDuringAnimation,  \* the module's global: "null", "wheel"
                      \* (this wheel) or "other" (a second wheel)
    detached,         \* the running tweens of this wheel this.tween lost
    otherTween,       \* the state of the second wheel's tween
    effects,          \* what the last call did to the canvas and the hooks
    lastCall          \* the last call made on the wheel and how it ended

\* The fields of options that no method of the model assigns.
config == <<optSegments, optAnimation, drawMode, rotationAngle, pointerAngle,
            innerRadius, outerRadius, textOptions>>

\* The segment array.
wheel == <<numSegments, segments, segLength>>

\* The animation and what drives it.
anim == <<animation, tween, ownProperties, winwheelToDrawDuringAnimation,
          detached, otherTween>>

vars == <<wheel, config, anim, effects, lastCall>>

\* The record of a call: its name, whether it threw, two arguments, the
\* number it returned and the segment it returned.
Call(op, threw, a1, a2, ret, seg) ==
    [op |-> op, threw |-> threw, a1 |-> a1, a2 |-> a2, ret |-> ret, seg |-> seg]

(* ------------------------------ Animation ----------------------------- *)
\* The value of a property read from an object that does not have it, and
\* of a key the caller left out of an options object.
UndefinedNumber == Null - 1

UndefinedString == "undefined"

\* new Animation(options): the caller's type, direction, spins and stopAngle
\* merged over Animation.defaultOptions; _stopAngle is not yet assigned.
Animation(type, direction, spins, stopAngle) ==
    [type |-> type, direction |-> direction, propertyName |-> NullString,
     propertyValue |-> Null, yoyo |-> "false", repeat |-> 0,
     easing |-> "Power3.easeOut", stopAngle |-> stopAngle, spins |-> spins,
     clearTheCanvas |-> NullString, callbackFinished |-> NullString,
     callbackBefore |-> NullString, callbackAfter |-> NullString,
     stopAngleInternal |-> Null]

\* new Animation(): the defaults alone.
DefaultAnimation == Animation("spinOngoing", "clockwise", Null, Null)

\* An options object for an animation that leaves every key out.
NoAnimationOptions ==
    [type |-> UndefinedString, direction |-> UndefinedString,
     spins |-> UndefinedNumber, stopAngle |-> UndefinedNumber,
     repeat |-> UndefinedNumber, easing |-> UndefinedString,
     yoyo |-> UndefinedString, clearTheCanvas |-> UndefinedString,
     callbackFinished |-> UndefinedString, callbackBefore |-> UndefinedString,
     callbackAfter |-> UndefinedString]

\* { ...defaultOptions, ..._options } for one key: the caller's value when the
\* key is there, else the default.
Spread(default, given) == IF given = UndefinedString THEN default ELSE given

\* The same for a key that holds a number.
SpreadNumber(default, given) ==
    IF given = UndefinedNumber THEN default ELSE given

\* new Animation(o): every key of o spread over Animation.defaultOptions.
NewAnimation(o) ==
    [type |-> Spread(DefaultAnimation.type, o.type),
     direction |-> Spread(DefaultAnimation.direction, o.direction),
     propertyName |-> NullString,
     propertyValue |-> Null,
     yoyo |-> Spread(DefaultAnimation.yoyo, o.yoyo),
     repeat |-> SpreadNumber(DefaultAnimation.repeat, o.repeat),
     easing |-> Spread(DefaultAnimation.easing, o.easing),
     stopAngle |-> SpreadNumber(DefaultAnimation.stopAngle, o.stopAngle),
     spins |-> SpreadNumber(DefaultAnimation.spins, o.spins),
     clearTheCanvas |-> Spread(DefaultAnimation.clearTheCanvas, o.clearTheCanvas),
     callbackFinished |-> Spread(DefaultAnimation.callbackFinished, o.callbackFinished),
     callbackBefore |-> Spread(DefaultAnimation.callbackBefore, o.callbackBefore),
     callbackAfter |-> Spread(DefaultAnimation.callbackAfter, o.callbackAfter),
     stopAngleInternal |-> Null]

\* this.tween before any startAnimation.
NoTween == [state |-> "none", property |-> NullString, from |-> 0, to |-> 0,
            step |-> 0, cycle |-> 0, repeat |-> 0, yoyo |-> "false"]

\* The wheel object has no numeric property of its own until gsap sets one.
NoProperties == [name \in {} |-> 0]

(* ------------------------- updateSegmentSizes -------------------------- *)
\* size !== null (line 203): the segment counts as having a set size.
SizeIsSet(s) == s.options.size # Null

\* if (size) (line 227): a set size of 0 is falsy and takes the shared amount.
SizeIsTruthy(s) == s.options.size # Null /\ s.options.size # 0

\* arcUsed of the first loop: the sum of the set sizes of segments 1..n.
RECURSIVE ArcUsed(_, _)
ArcUsed(segs, n) ==
    IF n = 0 THEN 0
    ELSE ArcUsed(segs, n - 1)
         + (IF SizeIsSet(segs[n]) THEN Deg(segs[n].options.size) ELSE 0)

\* numSet of the first loop.
NumSet(segs, n) == Cardinality({x \in 1..n : SizeIsSet(segs[x])})

\* DegreesEach with a remainder below 0 shared out as well.
DegreesEachOfAnyRemainder(segs, n) ==
    Divide(Deg(360) - ArcUsed(segs, n), n - NumSet(segs, n))

\* DegreesEach with the remainder shared among all the segments.
DegreesEachOverAll(segs, n) ==
    LET arcLeft == Deg(360) - ArcUsed(segs, n)
    IN IF arcLeft > 0 THEN Divide(arcLeft, n) ELSE 0

\* degreesEach: what is left of 360 shared among the segments without a size,
\* 0 when nothing is left.
DegreesEach(segs, n) ==
    LET arcLeft == Deg(360) - ArcUsed(segs, n)
    IN IF arcLeft > 0 THEN Divide(arcLeft, n - NumSet(segs, n)) ELSE 0

\* SetAngles with the start angle taken after the running angle is advanced.
RECURSIVE SetAnglesStartAfter(_, _, _, _, _)
SetAnglesStartAfter(segs, x, n, currentDegree, degreesEach) ==
    IF x > n THEN segs
    ELSE LET next == IF SizeIsTruthy(segs[x])
                     THEN Plus(currentDegree, Deg(segs[x].options.size))
                     ELSE Plus(currentDegree, degreesEach)
         IN SetAnglesStartAfter([segs EXCEPT ![x].startAngle = next,
                                             ![x].endAngle = next],
                                x + 1, n, next, degreesEach)

\* The second loop from segment x on: each segment starts at currentDegree and
\* ends its size, or degreesEach, further on.
RECURSIVE SetAngles(_, _, _, _, _)
SetAngles(segs, x, n, currentDegree, degreesEach) ==
    IF x > n THEN segs
    ELSE LET next == IF SizeIsTruthy(segs[x])
                     THEN Plus(currentDegree, Deg(segs[x].options.size))
                     ELSE Plus(currentDegree, degreesEach)
         IN SetAngles([segs EXCEPT ![x].startAngle = currentDegree,
                                   ![x].endAngle = next],
                      x + 1, n, next, degreesEach)

\* updateSegmentSizes on segments 1..n.  Reading segments[x].options of an
\* undefined slot throws in the first loop, before any angle is written.
UpdateSegmentSizes(segs, n) ==
    IF \E x \in 1..n : ~IsDefined(segs[x])
    THEN [threw |-> TRUE, segs |-> segs]
    ELSE [threw |-> FALSE,
          segs |-> SetAngles(segs, 1, n, 0, DegreesEach(segs, n))]

(* ----------------------------- constructor ----------------------------- *)
\* The body of the constructor's loop for slot i: the segment made from the
\* listed options (when entry i-1 is listed) is assigned and then replaced by
\* a default segment, since the second assignment is not in an else branch.
ConstructedSegment(list, i) ==
    LET fromList == IF i <= Len(list) THEN Segment(list[i]) ELSE Undefined
        assigned == Segment(DefaultOptions)
    IN assigned

\* The segments array after the constructor ran for numSegments = n.
Constructed(n, list) ==
    UpdateSegmentSizes(
        [x \in Positions |-> IF x <= n THEN ConstructedSegment(list, x)
                             ELSE Undefined], n).segs

\* The radii of the ring a wheel of the model is constructed with.
InnerRadius == 40

OuterRadius == 100

\* Something done to the canvas of a wheel, or a hook of its animation run.
Event(what, on) == [what |-> what, on |-> on]

\* draw(clearTheCanvas) on a wheel that has a canvas: the canvas is cleared
\* only for an argument that is given and true (for a missing argument the
\* code names clearCanvas without calling it), then the wheel is drawn.
Draw(clearTheCanvas, on) ==
    IF clearTheCanvas = "true" THEN <<Event("clear", on), Event("draw", on)>>
    ELSE <<Event("draw", on)>>

\* this.drawWheel after a constructor called without its second argument:
\* false in the image draw modes, true in the code draw mode.
DrawWheel(mode) == mode \notin {"image", "segmentImage"}

\* this.drawWheel == true after a constructor called with autoDraw: the
\* field is assigned only under if (!_drawWheel), so for true it stays
\* undefined, and for false it is what it is for an argument left out.
DrawWheelGiven(mode, autoDraw) ==
    IF autoDraw = 1 THEN FALSE ELSE DrawWheel(mode)

\* The text options of the wheel: the defaults of the constructor.  The
\* segments of the model leave their own text options null, so drawSegmentText
\* uses the wheel's for every segment.
DefaultTextOptions ==
    [textFontSize |-> 20, textOrientation |-> "horizontal",
     textAlignment |-> "center", textDirection |-> "normal",
     textMargin |-> Null, textFillStyle |-> "black",
     textStrokeStyle |-> NullString]

\* The end of the constructor: the wheel is drawn when drawWheel is true; else
\* in segmentImage mode an Image is made for every segment whose image option
\* is not null, to call winwheelLoadedImage when it is loaded.
RequestImages(segs, n) ==
    [x \in Positions |->
        IF x <= n /\ segs[x].options.image # NullString
        THEN [segs[x] EXCEPT !.options.imgData = "loading"]
        ELSE segs[x]]

\* new Winwheel({drawMode: mode, numSegments: n, segments: list, animation:
\* animationOptions, rotationAngle: rot, ...text}, autoDraw) on a page that
\* has the canvas.
ConstructWith(mode, autoDraw, n, list, animationOptions, text, rot, ptr, inner) ==
    /\ numSegments = n
    /\ segments = IF ~DrawWheelGiven(mode, autoDraw) /\ mode = "segmentImage"
                  THEN RequestImages(Constructed(n, list), n)
                  ELSE Constructed(n, list)
    /\ segLength = n + 1
    /\ optSegments = list
    /\ optAnimation = animationOptions
    /\ drawMode = mode
    /\ rotationAngle = rot
    /\ pointerAngle = ptr
    /\ innerRadius = inner
    /\ outerRadius = OuterRadius
    /\ textOptions = text
    /\ animation = NewAnimation(animationOptions)
    /\ tween = NoTween
    /\ ownProperties = NoProperties
    /\ winwheelToDrawDuringAnimation =
           IF ~DrawWheelGiven(mode, autoDraw) /\ mode = "segmentImage"
           THEN "wheel" ELSE "null"
    /\ detached = <<>>
    /\ otherTween = "none"
    /\ effects = IF DrawWheelGiven(mode, autoDraw) THEN Draw("true", "wheel")
                 ELSE <<>>
    /\ lastCall = Call("constructor", FALSE, n, autoDraw, 0, Undefined)

\* The constructor called without its second argument, the text options left
\* at their defaults.
ConstructIn(mode, n, list, animationOptions, rot, ptr, inner) ==
    ConstructWith(mode, UndefinedNumber, n, list, animationOptions,
                  DefaultTextOptions, rot, ptr, inner)

\* new Winwheel({numSegments: n, segments: list, rotationAngle: rot, ...}).
Construct(n, list, rot, ptr, inner) ==
    ConstructIn("code", n, list, NoAnimationOptions, rot, ptr, inner)

\* Wheels constructed without a per-segment options list.
Init == \E n \in 1..MaxIdx : Construct(n, <<>>, 0, 0, InnerRadius)

(* ----------------------- addSegment, deleteSegment --------------------- *)
\* The position argument left out (typeof position === "undefined").
NoPosition == -2

Max(a, b) == IF a > b THEN a ELSE b

\* addSegment's loop: for x from the new numSegments down to position + 1,
\* segments[x].options = segments[x - 1].options; it throws at the first
\* undefined slot it touches.
RECURSIVE ShiftUp(_, _, _)
ShiftUp(segs, x, position) ==
    IF x <= position THEN [threw |-> FALSE, segs |-> segs]
    ELSE IF ~IsDefined(segs[x]) \/ ~IsDefined(segs[x - 1])
    THEN [threw |-> TRUE, segs |-> segs]
    ELSE ShiftUp([segs EXCEPT ![x].options = segs[x - 1].options],
                 x - 1, position)

\* addSegment(options, position): the wheel it leaves, whether it threw and the
\* position of the segment it returns.
AddSegmentResult(segs, n, len, options, position) ==
    LET n1 == n + 1
        shifted == IF position = NoPosition
                   THEN [threw |-> FALSE, segs |-> segs]
                   ELSE ShiftUp(segs, n1, position)
        segmentPos == IF position = NoPosition THEN n1 ELSE position
        placed == [shifted.segs EXCEPT ![segmentPos] = Segment(options)]
        updated == UpdateSegmentSizes(placed, n1)
    IN IF shifted.threw
       THEN [threw |-> TRUE, n |-> n1, segs |-> shifted.segs, len |-> len,
             pos |-> segmentPos]
       ELSE [threw |-> updated.threw, n |-> n1, segs |-> updated.segs,
             len |-> Max(len, segmentPos + 1), pos |-> segmentPos]

AddSegment(options, position) ==
    /\ numSegments < MaxSegs
    /\ LET r == AddSegmentResult(segments, numSegments, segLength, options, position)
       IN /\ numSegments' = r.n
          /\ segments' = r.segs
          /\ segLength' = r.len
          /\ lastCall' = Call("addSegment", r.threw, position, numSegments,
                              r.pos, IF r.threw THEN Undefined ELSE r.segs[r.pos])
    /\ UNCHANGED <<config, anim, effects>>

\* deleteSegment's loop: for x from position to numSegments - 1,
\* segments[x].options = segments[x + 1].options.
RECURSIVE ShiftDown(_, _, _)
ShiftDown(segs, x, n) ==
    IF x >= n THEN [threw |-> FALSE, segs |-> segs]
    ELSE IF ~IsDefined(segs[x]) \/ ~IsDefined(segs[x + 1])
    THEN [threw |-> TRUE, segs |-> segs]
    ELSE ShiftDown([segs EXCEPT ![x].options = segs[x + 1].options], x + 1, n)

\* deleteSegment(position): nothing when one segment is left; else the shift,
\* the last slot unset, numSegments decremented and the sizes updated.
DeleteSegmentResult(segs, n, len, position) ==
    LET shifted == IF position = NoPosition
                   THEN [threw |-> FALSE, segs |-> segs]
                   ELSE ShiftDown(segs, position, n)
        unset == [shifted.segs EXCEPT ![n] = Undefined]
        updated == UpdateSegmentSizes(unset, n - 1)
    IN IF n <= 1
       THEN [threw |-> FALSE, n |-> n, segs |-> segs, len |-> len]
       ELSE IF shifted.threw
       THEN [threw |-> TRUE, n |-> n, segs |-> shifted.segs, len |-> len]
       ELSE [threw |-> updated.threw, n |-> n - 1, segs |-> updated.segs,
             len |-> Max(len, n + 1)]

DeleteSegment(position) ==
    /\ LET r == DeleteSegmentResult(segments, numSegments, segLength, position)
       IN /\ numSegments' = r.n
          /\ segments' = r.segs
          /\ segLength' = r.len
          /\ lastCall' = Call("deleteSegment", r.threw, position, numSegments,
                              0, Undefined)
    /\ UNCHANGED <<config, anim, effects>>

PositionArgs == Positions \cup {NoPosition}

AddSegmentCall == \E o \in CallerOptions, p \in PositionArgs : AddSegment(o, p)

\* addSegment(options): the segment is added at the end of the wheel.
AppendSegmentCall == \E o \in CallerOptions : AddSegment(o, NoPosition)

DeleteSegmentCall == \E p \in PositionArgs : DeleteSegment(p)

\* A call of the public updateSegmentSizes().
UpdateSegmentSizesCall ==
    /\ LET r == UpdateSegmentSizes(segments, numSegments)
       IN /\ segments' = r.segs
          /\ lastCall' = Call("updateSegmentSizes", r.threw, 0, 0, 0, Undefined)
    /\ UNCHANGED <<numSegments, segLength, config, anim, effects>>

(* ---------------------------- drawSegmentText -------------------------- *)
(* Positions are whole pixels relative to the wheel centre (x - centerX,    *)
(* y - centerY), quotients rounded down; angles are fixed-point degrees.    *)

\* The longest text (in characters, line breaks included) a segment of the
\* model carries.
MaxText == 3

\* text.split("\n"): the lines of the text, each the sequence of its
\* characters; the empty string has one empty line.
RECURSIVE Split(_)
Split(text) ==
    IF text = <<>> THEN << <<>> >>
    ELSE LET rest == Split(Tail(text))
         IN IF Head(text) = "\n" THEN << <<>> >> \o rest
            ELSE << <<Head(text)>> \o Head(rest) >> \o Tail(rest)

\* line.charAt(c): the character, or the empty string past the end.
CharAt(line, c) == IF c >= 0 /\ c < Len(line) THEN <<line[c + 1]>> ELSE <<>>

\* A null margin counts as 0 in the sums.
ToNumber(value) == IF value = Null THEN 0 ELSE value

\* if (fillStyle), if (strokeStyle): a style that is set.
StyleSet(style) == style # NullString

\* ctx.fillText / ctx.strokeText on this wheel's canvas: the text (a line, or
\* character c of it), the line it belongs to, where it is put, and the angle
\* the canvas is rotated by.
TextCommand(what, text, line, c, x, y, angle) ==
    [what |-> what, on |-> "wheel", text |-> text, line |-> line, c |-> c,
     x |-> x, y |-> y, angle |-> angle]

\* if (fillStyle) ctx.fillText(...); if (strokeStyle) ctx.strokeText(...).
FillThenStroke(o, text, line, c, x, y, angle) ==
    (IF StyleSet(o.textFillStyle)
     THEN <<TextCommand("fillText", text, line, c, x, y, angle)>> ELSE <<>>)
    \o (IF StyleSet(o.textStrokeStyle)
        THEN <<TextCommand("strokeText", text, line, c, x, y, angle)>> ELSE <<>>)

\* if (strokeStyle) ctx.strokeText(...); if (fillStyle) ctx.fillText(...).
StrokeThenFill(o, text, line, c, x, y, angle) ==
    (IF StyleSet(o.textStrokeStyle)
     THEN <<TextCommand("strokeText", text, line, c, x, y, angle)>> ELSE <<>>)
    \o (IF StyleSet(o.textFillStyle)
        THEN <<TextCommand("fillText", text, line, c, x, y, angle)>> ELSE <<>>)

RECURSIVE Flatten(_)
Flatten(seqs) ==
    IF Len(seqs) = 0 THEN <<>> ELSE Head(seqs) \o Flatten(Tail(seqs))

\* for (c = 0; c < length; c++): the values of c, pass by pass.
Forwards(length) == [k \in 1..length |-> k - 1]

\* for (c = length - 1; c >= 0; c--).
Backwards(length) == [k \in 1..length |-> length - k]

\* for (c = length; c >= 0; c--): the loop of reversed curved text, which
\* starts one past the last character.
BackwardsFromLength(length) == [k \in 1..(length + 1) |-> length + 1 - k]

\* LineOffset without the reset for curved text aligned inner or outer.
LineOffsetCentred(o, count) ==
    (0 - o.textFontSize * count) \div 2 + o.textFontSize \div 2

\* lineOffset before the first line of a text of count lines: the lines are
\* centred on the position of the text, but for curved text aligned inner or
\* outer the first line is at the position itself.
LineOffset(o, count) ==
    IF o.textOrientation = "curved" /\ o.textAlignment \in {"inner", "outer"}
    THEN 0
    ELSE (0 - o.textFontSize * count) \div 2 + o.textFontSize \div 2

\* seg.endAngle - (seg.endAngle - seg.startAngle) / 2.
MiddleOf(seg) == seg.endAngle - (seg.endAngle - seg.startAngle) \div 2

\* Horizontal text: the whole line in one command, fill then stroke.
HorizontalLine(seg, o, line, i, lineOffset, rot, inner, outer) ==
    LET reversed == o.textDirection = "reversed"
        margin == ToNumber(o.textMargin)
        textAngle == MiddleOf(seg) + Deg(rot) - Deg(90)
                     - (IF reversed THEN Deg(180) ELSE 0)
        reach == IF o.textAlignment = "inner" THEN inner + margin
                 ELSE IF o.textAlignment = "outer" THEN outer - margin
                 ELSE inner + (outer - inner) \div 2 + margin
    IN FillThenStroke(o, line, i, -1, IF reversed THEN 0 - reach ELSE reach,
                      lineOffset, textAngle)

\* fontSize - fontSize / 9.
YInc(o) == o.textFontSize - o.textFontSize \div 9

\* Vertical text: one pass per character, fill then stroke, yPos moved by
\* yInc after each.
VerticalLine(seg, o, line, i, lineOffset, rot, inner, outer) ==
    LET reversed == o.textDirection = "reversed"
        margin == ToNumber(o.textMargin)
        textAngle == MiddleOf(seg) - (IF reversed THEN Deg(180) ELSE 0) + Deg(rot)
        length == Len(line)
        centerAdjustment == IF length > 1 THEN (YInc(o) * (length - 1)) \div 2
                            ELSE 0
        away == IF o.textAlignment = "outer" THEN outer - margin
                ELSE IF o.textAlignment = "inner" THEN inner + margin
                ELSE inner + (outer - inner) \div 2 + centerAdjustment + margin
        yPos == IF reversed THEN away ELSE 0 - away
        \* normal: outer and center run down the characters, inner runs up;
        \* reversed: the other way round.
        down == (o.textAlignment = "inner") = reversed
        passes == IF down THEN Forwards(length) ELSE Backwards(length)
        step == IF down THEN YInc(o) ELSE 0 - YInc(o)
    IN Flatten([k \in 1..Len(passes) |->
                  FillThenStroke(o, CharAt(line, passes[k]), i, passes[k],
                                 lineOffset, yPos + step * (k - 1), textAngle)])

\* The radius curved text is drawn at; count is the number of lines.
CurvedRadius(o, count, inner, outer) ==
    LET reversed == o.textDirection = "reversed"
        margin == ToNumber(o.textMargin)
        further == o.textFontSize * (count - 1)
    IN IF o.textAlignment = "inner"
       THEN inner + margin + (IF reversed THEN 0 ELSE further)
       ELSE IF o.textAlignment = "outer"
       THEN outer - margin - (IF reversed THEN further ELSE 0)
       ELSE inner + margin + (outer - inner) \div 2

\* anglePerChar for a line of more than one character: 4 * (fontSize / 10)
\* scaled by 100 / radius.
AnglePerChar(o, length, radius) ==
    IF length > 1 THEN Divide(4 * o.textFontSize * 10 * Scale, radius) ELSE 0

\* drawAngle before the first pass: the text centred on the middle of the
\* segment, the rotation of the wheel added, 180 taken off when reversed.
DrawAngle(seg, o, length, radius, rot) ==
    LET totalArc == AnglePerChar(o, length, radius) * length
    IN (IF length > 1
        THEN seg.startAngle
             + ((seg.endAngle - seg.startAngle) \div 2 - totalArc \div 2)
        ELSE seg.startAngle + (seg.endAngle - seg.startAngle) \div 2)
       + Deg(rot) - (IF o.textDirection = "reversed" THEN Deg(180) ELSE 0)

\* The passes of the loop over the characters of a line of curved text.
CurvedPasses(o, length) ==
    IF o.textDirection = "reversed" THEN BackwardsFromLength(length)
    ELSE Forwards(length)

\* Curved text: one pass per value of c, stroke then fill, the canvas turned
\* by anglePerChar after each.
CurvedLine(seg, o, line, i, count, lineOffset, rot, inner, outer) ==
    LET reversed == o.textDirection = "reversed"
        length == Len(line)
        radius == CurvedRadius(o, count, inner, outer)
        anglePerChar == AnglePerChar(o, length, radius)
        drawAngle == DrawAngle(seg, o, length, radius, rot)
        passes == CurvedPasses(o, length)
        y == IF reversed THEN radius + lineOffset ELSE 0 - radius + lineOffset
    IN Flatten([k \in 1..Len(passes) |->
                  StrokeThenFill(o, CharAt(line, passes[k]), i, passes[k], 0, y,
                                 drawAngle + anglePerChar * (k - 1))])

\* The commands of line i (from 0) of the lines of a segment's text.
TextLine(seg, o, lines, i, rot, inner, outer) ==
    LET lineOffset == LineOffset(o, Len(lines)) + o.textFontSize * i
        line == lines[i + 1]
    IN IF o.textOrientation = "horizontal"
       THEN HorizontalLine(seg, o, line, i, lineOffset, rot, inner, outer)
       ELSE IF o.textOrientation = "vertical"
       THEN VerticalLine(seg, o, line, i, lineOffset, rot, inner, outer)
       ELSE IF o.textOrientation = "curved"
       THEN CurvedLine(seg, o, line, i, Len(lines), lineOffset, rot, inner, outer)
       ELSE <<>>

\* The commands of one segment: none when its text is the empty string.
SegmentText(seg, o, rot, inner, outer) ==
    IF seg.options.text = <<>> THEN <<>>
    ELSE LET lines == Split(seg.options.text)
         IN Flatten([k \in 1..Len(lines) |->
                       TextLine(seg, o, lines, k - 1, rot, inner, outer)])

\* drawSegmentText(): the text of segments x..n in turn; reading the options
\* of an undefined slot throws.
RECURSIVE DrawSegmentText(_, _, _, _, _, _, _)
DrawSegmentText(segs, x, n, o, rot, inner, outer) ==
    IF x > n THEN [threw |-> FALSE, commands |-> <<>>]
    ELSE IF ~IsDefined(segs[x]) THEN [threw |-> TRUE, commands |-> <<>>]
    ELSE LET rest == DrawSegmentText(segs, x + 1, n, o, rot, inner, outer)
         IN [threw |-> rest.threw,
             commands |-> SegmentText(segs[x], o, rot, inner, outer)
                          \o rest.commands]

\* A call of the public drawSegmentText().
DrawSegmentTextCall ==
    /\ LET r == DrawSegmentText(segments, 1, numSegments, textOptions,
                                rotationAngle, innerRadius, outerRadius)
       IN /\ effects' = r.commands
          /\ lastCall' = Call("drawSegmentText", r.threw, 0, 0, 0, Undefined)
    /\ UNCHANGED <<wheel, config, anim>>

\* addSegment({text: ...}) on a wheel of one segment.  The texts have up to
\* MaxText characters, line breaks among them.
AddTextSegmentCall ==
    /\ numSegments < 2
    /\ \E l \in 1..MaxText : \E text \in [1..l -> {"a", "b", "\n"}] :
         AddSegment([DefaultOptions EXCEPT !.text = text], NoPosition)

\* A call of the public draw(clearTheCanvas), the argument true, false or
\* left out.
DrawCall ==
    /\ \E clearTheCanvas \in {"true", "false", UndefinedString} :
         /\ effects' = Draw(clearTheCanvas, "wheel")
         /\ lastCall' = Call("draw", FALSE, clearTheCanvas, 0, 0, Undefined)
    /\ UNCHANGED <<wheel, config, anim>>

(* -------------------------- getRotationPosition ------------------------ *)
\* getRotationPosition for options.rotationAngle = rawAngle (whole degrees);
\* Math.floor of the quotient of positive integers is \div.
GetRotationPosition(rawAngle) ==
    IF rawAngle >= 0
    THEN IF rawAngle > 360
         THEN rawAngle - 360 * (rawAngle \div 360)
         ELSE rawAngle
    ELSE LET reduced == IF rawAngle < -360
                        THEN rawAngle - 360 * MathCeilDiv(rawAngle, 360)
                        ELSE rawAngle
         IN 360 + reduced

(* --------------------- getSegmentNumberAt, getSegmentAt ---------------- *)
(* A canvas point is given by its polar position about the wheel centre:   *)
(* phi, its angle clockwise from 12 o'clock (fixed-point, 0 <= phi < 360), *)
(* and hyp, its distance from the centre.  From them follow the signs the  *)
(* code compares (loc.x > centerX, loc.y > centerY) and the angle its      *)
(* arctangent yields; the pixel rounding of windowToCanvas and the         *)
(* rounding of Math.atan are not modelled.                                 *)

\* result: atan(oppositeSideLength / adjacentSideLength) in degrees, the angle
\* between the line to the point and the horizontal through the centre.
AtanResult(phi) ==
    IF phi <= Deg(90) THEN Deg(90) - phi
    ELSE IF phi <= Deg(180) THEN phi - Deg(90)
    ELSE IF phi <= Deg(270) THEN Deg(270) - phi
    ELSE phi - Deg(270)

\* locationAngle before the rotation is taken off: the four quadrant cases.
\* topBottom is "B" when loc.y > centerY (the point is below the centre),
\* leftRight is "R" when loc.x > centerX (the point is right of the centre).
QuadrantAngle(phi) ==
    LET result == AtanResult(phi)
        topBottom == IF Deg(90) < phi /\ phi < Deg(270) THEN "B" ELSE "T"
        leftRight == IF 0 < phi /\ phi < Deg(180) THEN "R" ELSE "L"
    IN IF topBottom = "T" /\ leftRight = "R" THEN MathRound(Deg(90) - result)
       ELSE IF topBottom = "B" /\ leftRight = "R" THEN MathRound(result + Deg(90))
       ELSE IF topBottom = "B" /\ leftRight = "L"
       THEN MathRound(Deg(90) - result + Deg(180))
       ELSE MathRound(result + Deg(270))

\* RotatedAngle without the wrap of a negative angle.
RotatedAngleNoWrap(locationAngle, rot) ==
    IF rot # 0 THEN locationAngle - GetRotationPosition(rot) ELSE locationAngle

\* locationAngle after the adjustment for a rotated wheel.
RotatedAngle(locationAngle, rot) ==
    IF rot # 0
    THEN LET shifted == locationAngle - GetRotationPosition(rot)
         IN IF shifted < 0 THEN 360 - Abs(shifted) ELSE shifted
    ELSE locationAngle

\* WithinRadius without the test against the inner radius.
WithinRadiusOuterOnly(hyp, inner, outer) == hyp <= outer

\* hypotenuseSideLength is within the ring of the wheel.
WithinRadius(hyp, inner, outer) == hyp >= inner /\ hyp <= outer

\* Segment s matches locationAngle (whole degrees).
AngleMatches(s, locationAngle) ==
    Deg(locationAngle) >= s.startAngle /\ Deg(locationAngle) <= s.endAngle

\* The scan of segments x..n for the first one that matches the angle and the
\* radius; reading an undefined slot throws.
RECURSIVE ScanSegments(_, _, _, _, _)
ScanSegments(segs, x, n, locationAngle, within) ==
    IF x > n THEN [threw |-> FALSE, ret |-> Null]
    ELSE IF ~IsDefined(segs[x]) THEN [threw |-> TRUE, ret |-> Null]
    ELSE IF AngleMatches(segs[x], locationAngle) /\ within
    THEN [threw |-> FALSE, ret |-> x]
    ELSE ScanSegments(segs, x + 1, n, locationAngle, within)

\* getSegmentNumberAt for the point (phi, hyp).  At the centre both sides of the
\* triangle are 0, the angle is NaN and no segment matches.
GetSegmentNumberAt(segs, n, rot, inner, outer, phi, hyp) ==
    IF hyp = 0
    THEN IF \E x \in 1..n : ~IsDefined(segs[x])
         THEN [threw |-> TRUE, ret |-> Null]
         ELSE [threw |-> FALSE, ret |-> Null]
    ELSE ScanSegments(segs, 1, n, RotatedAngle(QuadrantAngle(phi), rot),
                      WithinRadius(hyp, inner, outer))

\* getSegmentAt: the segment at the number found, or null.
GetSegmentAt(segs, n, rot, inner, outer, phi, hyp) ==
    LET found == GetSegmentNumberAt(segs, n, rot, inner, outer, phi, hyp)
    IN [threw |-> found.threw,
        ret |-> found.ret,
        seg |-> IF found.threw THEN Undefined
                ELSE IF found.ret # Null THEN segs[found.ret] ELSE NullSegment]

\* The mid-angle of segment i, and the screen angle at which it shows on a
\* wheel rotated by rot.
MidAngle(s) == (s.startAngle + s.endAngle) \div 2

ScreenAngle(angle, rot) == (angle + Deg(rot)) % Deg(360)

MidRadius(inner, outer) == (inner + outer) \div 2

\* The points the model tests: the mid-angle and both boundaries of every
\* segment, at radii inside the hole, on and within the ring, and outside.
TestAngles ==
    { ScreenAngle(a, rotationAngle) :
        a \in UNION { {MidAngle(segments[i]), segments[i].startAngle,
                       segments[i].endAngle} :
                      i \in {x \in 1..numSegments :
                               /\ IsDefined(segments[x])
                               /\ IsFinite(segments[x].endAngle)} } }

TestRadii ==
    {innerRadius - 1, innerRadius, MidRadius(innerRadius, outerRadius),
     outerRadius, outerRadius + 1}

QueryOps == {"getSegmentNumberAt", "getSegmentAt", "getIndicatedSegmentNumber",
             "getIndicatedSegment", "getRotationPosition",
             "getRandomForSegment"}

\* A query leaves the wheel as it is, so the result of a query does not depend
\* on the queries before it: the model makes one query at a time between calls
\* that change the wheel.
QueryEnabled == lastCall.op \notin QueryOps

GetSegmentNumberAtCall ==
    /\ QueryEnabled
    /\ \E phi \in TestAngles, hyp \in TestRadii :
         LET r == GetSegmentNumberAt(segments, numSegments, rotationAngle,
                                     innerRadius, outerRadius, phi, hyp)
         IN lastCall' = Call("getSegmentNumberAt", r.threw, phi, hyp, r.ret, Undefined)
    /\ UNCHANGED <<wheel, config, anim, effects>>

GetSegmentAtCall ==
    /\ QueryEnabled
    /\ \E phi \in TestAngles, hyp \in TestRadii :
         LET r == GetSegmentAt(segments, numSegments, rotationAngle,
                               innerRadius, outerRadius, phi, hyp)
         IN lastCall' = Call("getSegmentAt", r.threw, phi, hyp, r.ret, r.seg)
    /\ UNCHANGED <<wheel, config, anim, effects>>

(* --------------- getIndicatedSegmentNumber, getIndicatedSegment -------- *)
\* options[name] for a numeric property of a segment's options: options hold
\* size and text, the angles are fields of the segment itself.
OptionsProperty(options, name) ==
    IF name = "size" THEN options.size ELSE UndefinedNumber

\* a >= b and a <= b on numbers; a comparison with undefined is false.
GreaterOrEqual(a, b) == a # UndefinedNumber /\ b # UndefinedNumber /\ a >= b

LessOrEqual(a, b) == a # UndefinedNumber /\ b # UndefinedNumber /\ a <= b

\* relativeAngle: the pointer angle less the rotation, wrapped when negative.
RelativeAngle(ptr, rot) ==
    LET relativeAngle == ptr - GetRotationPosition(rot)
    IN IF relativeAngle < 0 THEN 360 - Abs(relativeAngle) ELSE relativeAngle

\* The test of getIndicatedSegmentNumber's loop for segment s.
IndicatedMatches(s, relativeAngle) ==
    /\ GreaterOrEqual(Deg(relativeAngle), OptionsProperty(s.options, "startAngle"))
    /\ LessOrEqual(Deg(relativeAngle), OptionsProperty(s.options, "endAngle"))

\* The loop over x = 1 .. segments.length - 1; an undefined slot throws.
RECURSIVE ScanIndicated(_, _, _, _)
ScanIndicated(segs, x, len, relativeAngle) ==
    IF x >= len THEN [threw |-> FALSE, ret |-> 0]
    ELSE IF ~IsDefined(segs[x]) THEN [threw |-> TRUE, ret |-> 0]
    ELSE IF IndicatedMatches(segs[x], relativeAngle)
    THEN [threw |-> FALSE, ret |-> x]
    ELSE ScanIndicated(segs, x + 1, len, relativeAngle)

GetIndicatedSegmentNumber(segs, len, ptr, rot) ==
    ScanIndicated(segs, 1, len, RelativeAngle(ptr, rot))

\* getIndicatedSegment: segments[prizeNumber]; slot 0 is never assigned.
GetIndicatedSegment(segs, len, ptr, rot) ==
    LET found == GetIndicatedSegmentNumber(segs, len, ptr, rot)
    IN [threw |-> found.threw,
        ret |-> found.ret,
        seg |-> IF found.threw \/ found.ret = 0 THEN Undefined
                ELSE segs[found.ret]]

GetIndicatedSegmentNumberCall ==
    /\ QueryEnabled
    /\ LET r == GetIndicatedSegmentNumber(segments, segLength, pointerAngle,
                                          rotationAngle)
       IN lastCall' = Call("getIndicatedSegmentNumber", r.threw, 0, 0, r.ret,
                           Undefined)
    /\ UNCHANGED <<wheel, config, anim, effects>>

GetIndicatedSegmentCall ==
    /\ QueryEnabled
    /\ LET r == GetIndicatedSegment(segments, segLength, pointerAngle,
                                    rotationAngle)
       IN lastCall' = Call("getIndicatedSegment", r.threw, 0, 0, r.ret, r.seg)
    /\ UNCHANGED <<wheel, config, anim, effects>>

GetRotationPositionCall ==
    /\ QueryEnabled
    /\ lastCall' = Call("getRotationPosition", FALSE, rotationAngle, 0,
                        GetRotationPosition(rotationAngle), Undefined)
    /\ UNCHANGED <<wheel, config, anim, effects>>

(* ------------------------------ animation ------------------------------ *)
\* Math.floor(Math.random() * RandomRange) lies in 0 .. RandomRange - 1.
RandomRange == 359

\* spins after the default of 5 is applied.
DefaultSpins == 5

SpinsOrDefault(a) == IF a.spins = Null THEN DefaultSpins ELSE a.spins

\* StopAngleToStop without the pointer angle.
StopAngleToStopNoPointer(a, ptr, random) ==
    IF a.stopAngle = Null THEN random ELSE 360 - a.stopAngle

\* _stopAngle of a spinToStop: a random angle when no stopAngle is given, else
\* 360 less the stopAngle plus the pointer angle.
StopAngleToStop(a, ptr, random) ==
    IF a.stopAngle = Null THEN random ELSE 360 - a.stopAngle + ptr

\* StopAngleAndBack with the stopAngle taken as it is given.
StopAngleAndBackAsGiven(a) == IF a.stopAngle = Null THEN 0 ELSE a.stopAngle

\* _stopAngle of a spinAndBack.
StopAngleAndBack(a) == IF a.stopAngle = Null THEN 0 ELSE 360 - a.stopAngle

\* propertyValue of a spin that stops at stopAngleInternal.
StopValue(a, stopAngleInternal) ==
    LET turns == SpinsOrDefault(a) * 360
    IN IF a.direction = "anti-clockwise"
       THEN (0 - turns) - (360 - stopAngleInternal)
       ELSE turns + stopAngleInternal

\* computeAnimation: the animation it leaves; random is what Math.random gives.
ComputeAnimation(a, ptr, random) ==
    IF a.type = "spinOngoing"
    THEN [a EXCEPT !.propertyName = "rotationAngle",
                   !.spins = SpinsOrDefault(a),
                   !.repeat = IF a.repeat = Null THEN -1 ELSE a.repeat,
                   !.easing = IF a.easing = NullString THEN "Linear.easeNone"
                              ELSE a.easing,
                   !.yoyo = IF a.yoyo = NullString THEN "false" ELSE a.yoyo,
                   !.propertyValue = IF a.direction = "anti-clockwise"
                                     THEN 0 - SpinsOrDefault(a) * 360
                                     ELSE SpinsOrDefault(a) * 360]
    ELSE IF a.type = "spinToStop"
    THEN [a EXCEPT !.propertyName = "rotationAngle",
                   !.spins = SpinsOrDefault(a),
                   !.repeat = IF a.repeat = Null THEN 0 ELSE a.repeat,
                   !.easing = IF a.easing = NullString THEN "Power4.easeOut"
                              ELSE a.easing,
                   !.stopAngleInternal = StopAngleToStop(a, ptr, random),
                   !.yoyo = IF a.yoyo = NullString THEN "false" ELSE a.yoyo,
                   !.propertyValue = StopValue(a, StopAngleToStop(a, ptr, random))]
    ELSE IF a.type = "spinAndBack"
    THEN [a EXCEPT !.propertyName = "rotationAngle",
                   !.spins = SpinsOrDefault(a),
                   !.repeat = IF a.repeat = Null THEN 1 ELSE a.repeat,
                   !.easing = IF a.easing = NullString THEN "Power2.easeInOut"
                              ELSE a.easing,
                   !.yoyo = IF a.yoyo = NullString THEN "true" ELSE a.yoyo,
                   !.stopAngleInternal = StopAngleAndBack(a),
                   !.propertyValue = StopValue(a, StopAngleAndBack(a))]
    ELSE a

\* Math.random is drawn only where computeAnimation calls it; the draws of
\* the model are both ends of the range and two values inside.
RandomDraws(a) ==
    IF a.type = "spinToStop" /\ a.stopAngle = Null
    THEN {0, 1, RandomRange \div 2, RandomRange - 1}
    ELSE {0}

ComputeAnimationCall ==
    /\ tween.state # "running"
    /\ \E random \in RandomDraws(animation) :
         animation' = ComputeAnimation(animation, pointerAngle, random)
    /\ lastCall' = Call("computeAnimation", FALSE, 0, 0, 0, Undefined)
    /\ UNCHANGED <<wheel, config, tween, ownProperties,
                   winwheelToDrawDuringAnimation, detached, otherTween, effects>>

\* target[property] as gsap reads it when the tween starts: 0 for a property
\* the target does not have.
PropertyOf(props, name) == IF name \in DOMAIN props THEN props[name] ELSE 0

\* gsap.to(this, duration, properties): the tween of the wheel object's own
\* property a.propertyName towards a.propertyValue.
NewTween(a, props) ==
    [state |-> "running", property |-> a.propertyName,
     from |-> PropertyOf(props, a.propertyName), to |-> Deg(a.propertyValue),
     step |-> 0, cycle |-> 0, repeat |-> a.repeat, yoyo |-> a.yoyo]

\* startAnimation on a wheel whose tween is not running: computeAnimation, the
\* global set to this wheel, the tween made.  (A custom animation without a
\* property value is not modelled.)
StartAnimation ==
    /\ tween.state # "running"
    /\ \E random \in RandomDraws(animation) :
         LET a == ComputeAnimation(animation, pointerAngle, random)
         IN /\ a.propertyValue # Null
            /\ animation' = a
            /\ tween' = NewTween(a, ownProperties)
    /\ winwheelToDrawDuringAnimation' = "wheel"
    /\ lastCall' = Call("startAnimation", FALSE, 0, 0, 0, Undefined)
    /\ UNCHANGED <<wheel, config, ownProperties, detached, otherTween, effects>>

\* The most tweens of a wheel the model lets run without this.tween holding
\* them.
MaxDetached == 1

\* startAnimation on a wheel whose tween is running: the same steps; nothing
\* is done to the running tween, which this.tween no longer holds and gsap
\* goes on running.
StartAnimationAgain ==
    /\ tween.state = "running"
    /\ Len(detached) < MaxDetached
    /\ \E random \in RandomDraws(animation) :
         LET a == ComputeAnimation(animation, pointerAngle, random)
         IN /\ a.propertyValue # Null
            /\ animation' = a
            /\ tween' = NewTween(a, ownProperties)
    /\ detached' = Append(detached, tween)
    /\ winwheelToDrawDuringAnimation' = "wheel"
    /\ lastCall' = Call("startAnimation", FALSE, 1, 0, 0, Undefined)
    /\ UNCHANGED <<wheel, config, ownProperties, otherTween, effects>>

\* The value gsap gives the property at a step of a cycle: on the way out, or
\* on the way back in the odd cycles of a yoyo (eased linearly in the model).
TweenValue(t, step) ==
    LET forward == ~(t.yoyo = "true" /\ t.cycle % 2 = 1)
        done == IF forward THEN step ELSE TweenSteps - step
    IN t.from + ((t.to - t.from) * done) \div TweenSteps

\* The tween has cycles left after the current one.
Repeats(t) == t.repeat = -1 \/ t.cycle < t.repeat

\* The target after gsap wrote the tweened property.
SetProperty(props, name, value) ==
    [n \in DOMAIN props \cup {name} |-> IF n = name THEN value ELSE props[n]]

\* The tween after a tick that does not end it.  An endless tween stays in its
\* first two cycles in the model.
Ticked(t) ==
    IF t.step + 1 = TweenSteps
    THEN [t EXCEPT !.step = 0,
                   !.cycle = IF t.repeat = -1 THEN (t.cycle + 1) % 2
                             ELSE t.cycle + 1]
    ELSE [t EXCEPT !.step = t.step + 1]

\* The next tick of the tween is not its last one.
TicksOn(t) == t.state = "running" /\ (t.step + 1 < TweenSteps \/ Repeats(t))

\* The next tick of the tween is its last one.
TicksLast(t) == t.state = "running" /\ t.step + 1 = TweenSteps /\ ~Repeats(t)

\* object[name] for a hook or flag read from the Animation object itself: the
\* object holds options and _stopAngle, and whatever the caller gave is in
\* options, so every such read gives undefined.
AnimationProperty(a, name) ==
    IF name \in {"options", "defaultOptions", "_stopAngle"}
    THEN "object"
    ELSE UndefinedString

\* value != null.
NotNull(value) == value # NullString /\ value # UndefinedString

\* The animation of the wheel the global names: that of the second wheel is
\* the default one.
AnimationOfGlobal == 
    IF winwheelToDrawDuringAnimation = "wheel" THEN animation ELSE DefaultAnimation

\* winwheelAnimationLoop(): on the wheel the global names, the canvas cleared
\* unless animation.clearTheCanvas is false, animation.callbackBefore run if
\* not null, draw(false), animation.callbackAfter run if not null.
WinwheelAnimationLoop ==
    LET on == winwheelToDrawDuringAnimation
        a == AnimationOfGlobal
    IN IF on = "null" THEN <<>>
       ELSE (IF AnimationProperty(a, "clearTheCanvas") # "false"
             THEN <<Event("clear", on)>> ELSE <<>>)
            \o (IF NotNull(AnimationProperty(a, "callbackBefore"))
                THEN <<Event("callbackBefore", on)>> ELSE <<>>)
            \o Draw("false", on)
            \o (IF NotNull(AnimationProperty(a, "callbackAfter"))
                THEN <<Event("callbackAfter", on)>> ELSE <<>>)

\* winwheelStopAnimation(canCallback): animation.callbackFinished of the
\* wheel the global names is run unless canCallback is false or the hook is
\* null.
WinwheelStopAnimation(canCallback) ==
    IF /\ canCallback # 0
       /\ NotNull(AnimationProperty(AnimationOfGlobal, "callbackFinished"))
    THEN <<Event("callbackFinished", winwheelToDrawDuringAnimation)>>
    ELSE <<>>

\* A tick of gsap that does not end the tween: the property of the wheel
\* object is written and onUpdate (winwheelAnimationLoop) runs.
TweenUpdate ==
    /\ TicksOn(tween)
    /\ ownProperties' = SetProperty(ownProperties, tween.property,
                                    TweenValue(tween, tween.step + 1))
    /\ tween' = Ticked(tween)
    /\ effects' = WinwheelAnimationLoop
    /\ lastCall' = Call("winwheelAnimationLoop", FALSE, 0, 0, 0, Undefined)
    /\ UNCHANGED <<wheel, config, animation, winwheelToDrawDuringAnimation,
                   detached, otherTween>>

\* The last tick of a tween: the property reaches the end of its last cycle,
\* onUpdate runs and then onComplete (winwheelStopAnimation).
TweenComplete ==
    /\ TicksLast(tween)
    /\ ownProperties' = SetProperty(ownProperties, tween.property,
                                    TweenValue(tween, TweenSteps))
    /\ tween' = [tween EXCEPT !.state = "done", !.step = TweenSteps]
    /\ effects' = WinwheelAnimationLoop \o WinwheelStopAnimation(UndefinedNumber)
    /\ lastCall' = Call("winwheelStopAnimation", FALSE, 0, 0, 0, Undefined)
    /\ UNCHANGED <<wheel, config, animation, winwheelToDrawDuringAnimation,
                   detached, otherTween>>

\* A tick of a tween this.tween no longer holds: it writes the same property
\* of the wheel object and calls the same onUpdate.
DetachedTweenUpdate ==
    \E i \in 1..Len(detached) :
        /\ TicksOn(detached[i])
        /\ ownProperties' = SetProperty(ownProperties, detached[i].property,
                                TweenValue(detached[i], detached[i].step + 1))
        /\ detached' = [detached EXCEPT ![i] = Ticked(detached[i])]
        /\ effects' = WinwheelAnimationLoop
        /\ lastCall' = Call("winwheelAnimationLoop", FALSE, 1, 0, 0, Undefined)
        /\ UNCHANGED <<wheel, config, animation, tween,
                       winwheelToDrawDuringAnimation, otherTween>>

\* The last tick of such a tween.
DetachedTweenComplete ==
    \E i \in 1..Len(detached) :
        /\ TicksLast(detached[i])
        /\ ownProperties' = SetProperty(ownProperties, detached[i].property,
                                TweenValue(detached[i], TweenSteps))
        /\ detached' = SubSeq(detached, 1, i - 1)
                        \o SubSeq(detached, i + 1, Len(detached))
        /\ effects' = WinwheelAnimationLoop \o WinwheelStopAnimation(UndefinedNumber)
        /\ lastCall' = Call("winwheelStopAnimation", FALSE, 1, 0, 0, Undefined)
        /\ UNCHANGED <<wheel, config, animation, tween,
                       winwheelToDrawDuringAnimation, otherTween>>

\* startAnimation on the second wheel: the global names that wheel and its
\* tween runs.
OtherStartAnimation ==
    /\ otherTween # "running"
    /\ otherTween' = "running"
    /\ winwheelToDrawDuringAnimation' = "other"
    /\ lastCall' = Call("other.startAnimation", FALSE, 0, 0, 0, Undefined)
    /\ UNCHANGED <<wheel, config, animation, tween, ownProperties, detached,
                   effects>>

\* A tick of the second wheel's tween that does not end it: onUpdate runs.
OtherTweenUpdate ==
    /\ otherTween = "running"
    /\ effects' = WinwheelAnimationLoop
    /\ lastCall' = Call("other.winwheelAnimationLoop", FALSE, 0, 0, 0, Undefined)
    /\ UNCHANGED <<wheel, config, animation, tween, ownProperties, detached,
                   winwheelToDrawDuringAnimation, otherTween>>

\* The last tick of the second wheel's tween: onUpdate and onComplete run.
OtherTweenComplete ==
    /\ otherTween = "running"
    /\ otherTween' = "done"
    /\ effects' = WinwheelAnimationLoop \o WinwheelStopAnimation(UndefinedNumber)
    /\ lastCall' = Call("other.winwheelStopAnimation", FALSE, 0, 0, 0, Undefined)
    /\ UNCHANGED <<wheel, config, animation, tween, ownProperties, detached,
                   winwheelToDrawDuringAnimation>>

\* tween.kill(): a running or paused tween stops for good.
Killed(state) == IF state \in {"running", "paused"} THEN "killed" ELSE state

\* StopAnimation with the tween of this wheel killed whichever wheel the
\* global names.
StopAnimationOwnTween(canCallback) ==
    LET on == winwheelToDrawDuringAnimation
        threw == on # "null" /\ tween.state = "none"
        running == IF tween.state = "running" THEN 1 ELSE 0
    IN /\ tween' = IF on # "null" /\ ~threw
                   THEN [tween EXCEPT !.state = Killed(tween.state)]
                   ELSE tween
       /\ otherTween' = otherTween
       /\ effects' = IF on = "null" \/ threw THEN <<>>
                     ELSE WinwheelStopAnimation(canCallback)
       /\ winwheelToDrawDuringAnimation' = IF threw THEN on ELSE "wheel"
       /\ lastCall' = Call("stopAnimation", threw, canCallback, running, 0,
                           Undefined)
       /\ UNCHANGED <<wheel, config, animation, ownProperties, detached>>

\* stopAnimation(canCallback) on this wheel: when the global names a wheel,
\* the tween of that wheel is killed (a TypeError when it has none) and
\* winwheelStopAnimation(canCallback) is called; then the global names this
\* wheel.  a2 of the call records whether this wheel's tween was running.
StopAnimation(canCallback) ==
    LET on == winwheelToDrawDuringAnimation
        threw == on = "wheel" /\ tween.state = "none"
        running == IF tween.state = "running" THEN 1 ELSE 0
    IN /\ tween' = IF on = "wheel" /\ ~threw
                   THEN [tween EXCEPT !.state = Killed(tween.state)]
                   ELSE tween
       /\ otherTween' = IF on = "other" THEN Killed(otherTween) ELSE otherTween
       /\ effects' = IF on = "null" \/ threw THEN <<>>
                     ELSE WinwheelStopAnimation(canCallback)
       /\ winwheelToDrawDuringAnimation' = IF threw THEN on ELSE "wheel"
       /\ lastCall' = Call("stopAnimation", threw, canCallback, running, 0,
                           Undefined)
       /\ UNCHANGED <<wheel, config, animation, ownProperties, detached>>

\* stopAnimation(canCallback), canCallback true, false, or left out.
StopAnimationCall ==
    \E canCallback \in {1, 0, UndefinedNumber} : StopAnimation(canCallback)

\* pauseAnimation(): the tween of this wheel is paused, when it has one.
\* tween.pause(): a running tween stands still until it is played again.
PauseAnimation ==
    /\ tween' = IF tween.state = "running"
                THEN [tween EXCEPT !.state = "paused"]
                ELSE tween
    /\ lastCall' = Call("pauseAnimation", FALSE, 0, 0, 0, Undefined)
    /\ UNCHANGED <<wheel, config, animation, ownProperties, detached,
                   otherTween, winwheelToDrawDuringAnimation, effects>>

\* resumeAnimation(): the tween of this wheel is played, when it has one.
\* tween.play(): a paused tween runs on from where it stood.
ResumeAnimation ==
    /\ tween' = IF tween.state = "paused"
                THEN [tween EXCEPT !.state = "running"]
                ELSE tween
    /\ lastCall' = Call("resumeAnimation", FALSE, 0, 0, 0, Undefined)
    /\ UNCHANGED <<wheel, config, animation, ownProperties, detached,
                   otherTween, winwheelToDrawDuringAnimation, effects>>

(* ------------------------- getRandomForSegment ------------------------- *)
\* range without the degree kept clear at the start of the segment only.
SegmentRangeOneDegree(s) == s.endAngle - s.startAngle - Deg(1)

\* range = endAngle - startAngle - 2.
SegmentRange(s) == s.endAngle - s.startAngle - Deg(2)

\* The values of Math.floor(Math.random() * range) for range > 0: the whole
\* numbers below range.
RandomFloors(range) == 0..(MathCeilDiv(range, Scale) - 1)

\* getRandomForSegment(segmentNumber): 0 for a segment number that is falsy,
\* for an undefined slot and for a range that is not positive; else
\* startAngle + 1 + floor, floor being what Math.floor(Math.random() * range)
\* gave.
GetRandomForSegment(segs, segmentNumber, floor) ==
    IF segmentNumber = 0 \/ segmentNumber = NoPosition THEN 0
    ELSE IF ~IsDefined(segs[segmentNumber]) THEN 0
    ELSE IF SegmentRange(segs[segmentNumber]) > 0
    THEN segs[segmentNumber].startAngle + Deg(1) + Deg(floor)
    ELSE 0

\* Math.random is drawn only where getRandomForSegment calls it; the model
\* draws the least value, the greatest and the one half-way.
FloorDraws(segs, segmentNumber) ==
    IF /\ segmentNumber \in Positions
       /\ IsDefined(segs[segmentNumber])
       /\ SegmentRange(segs[segmentNumber]) > 0
    THEN LET last == MathCeilDiv(SegmentRange(segs[segmentNumber]), Scale) - 1
         IN {0, last \div 2, last} \cap RandomFloors(SegmentRange(segs[segmentNumber]))
    ELSE {0}

GetRandomForSegmentCall ==
    /\ QueryEnabled
    /\ \E n \in {0, NoPosition} \cup Positions :
         \E floor \in FloorDraws(segments, n) :
           lastCall' = Call("getRandomForSegment", FALSE, n, floor,
                            GetRandomForSegment(segments, n, floor), Undefined)
    /\ UNCHANGED <<wheel, config, anim, effects>>

\* addSegment(options) with a size of the specification SpecRandom: with
\* them a wheel has segments of exactly 2 degrees, of 2.5 and of 3 degrees.
AppendSizedSegmentCall ==
    \E size \in {Null, 2, 3, 355} :
        AddSegment([DefaultOptions EXCEPT !.size = size], NoPosition)

(* --------------------------- specifications ---------------------------- *)
\* The life of the segment array: segments added at any position and deleted.
Next ==
    \/ AddSegmentCall
    \/ DeleteSegmentCall

Spec == Init /\ [][Next]_vars

\* Wheels constructed with a per-segment options list, in the code draw mode
\* and in the segmentImage draw mode; a listed segment may name an image.
ListedOptions == CallerOptions \cup {[DefaultOptions EXCEPT !.image = "a.png"]}

OptionLists == {<<>>} \cup {<<a>> : a \in ListedOptions}
               \cup {<<a, b>> : a \in ListedOptions, b \in ListedOptions}

InitCtor ==
    \E n \in 1..MaxIdx, list \in OptionLists,
       mode \in {"code", "image", "segmentImage"},
       autoDraw \in {1, 0, UndefinedNumber} :
        ConstructWith(mode, autoDraw, n, list, NoAnimationOptions,
                      DefaultTextOptions, 0, 0, InnerRadius)

NextCtor ==
    \/ UpdateSegmentSizesCall
    \/ DrawCall

SpecCtor == InitCtor /\ [][NextCtor]_vars

\* Rotated wheels, their segments appended and deleted, and the queries on them.
InitQuery == \E n \in 1..MaxIdx, rot \in {0, 37, 90, -400} :
                 Construct(n, <<>>, rot, 0, InnerRadius)

NextQuery ==
    \/ AppendSegmentCall
    \/ DeleteSegmentCall
    \/ GetSegmentNumberAtCall
    \/ GetSegmentAtCall
    \/ GetIndicatedSegmentNumberCall
    \/ GetIndicatedSegmentCall

SpecQuery == InitQuery /\ [][NextQuery]_vars

\* Wheels of every rotation, for the normalisation of the rotation.
InitRot == \E rot \in (0 - MaxRot)..MaxRot :
               Construct(MaxIdx, <<>>, rot, 0, InnerRadius)

NextRot == GetRotationPositionCall

SpecRot == InitRot /\ [][NextRot]_vars

\* What the caller gives for repeat, easing and yoyo: the three keys left
\* out, or the three set to null.
RestGiven ==
    {[repeat |-> UndefinedNumber, easing |-> UndefinedString, yoyo |-> UndefinedString],
     [repeat |-> Null, easing |-> NullString, yoyo |-> NullString]}

\* The animation options of a caller who gives the type, the direction, spins
\* and stopAngle (null for one not wanted) and rest for the other three.
AnimationOptions(type, direction, spins, stopAngle, rest) ==
    [NoAnimationOptions EXCEPT !.type = type, !.direction = direction,
                               !.spins = spins, !.stopAngle = stopAngle,
                               !.repeat = rest.repeat, !.easing = rest.easing,
                               !.yoyo = rest.yoyo]

\* Wheels constructed with an animation, started and run by gsap.
InitAnim ==
    \E type \in {"spinOngoing", "spinToStop", "spinAndBack", "custom"},
       direction \in {"clockwise", "anti-clockwise"}, spins \in {Null, 2},
       stopAngle \in {Null, 0, 90, 180, 359}, ptr \in {0, 90},
       rest \in RestGiven :
        ConstructIn("code", MaxIdx, <<>>,
                    AnimationOptions(type, direction, spins, stopAngle, rest),
                    0, ptr, InnerRadius)

NextAnim ==
    \/ ComputeAnimationCall
    \/ StartAnimation
    \/ TweenUpdate
    \/ TweenComplete
    \/ GetRotationPositionCall
    \/ GetIndicatedSegmentNumberCall
    \/ GetIndicatedSegmentCall

SpecAnim == InitAnim /\ [][NextAnim]_vars

\* What the caller gives for the hooks of the animation: none, or all three.
HooksGiven ==
    {[callbackFinished |-> UndefinedString, callbackBefore |-> UndefinedString,
      callbackAfter |-> UndefinedString],
     [callbackFinished |-> "finished()", callbackBefore |-> "before()",
      callbackAfter |-> "after()"]}

\* A wheel with a spinToStop animation, its hooks and clearTheCanvas given or
\* not, beside a second wheel: the animations started, started again, run by
\* gsap and stopped.
InitTween ==
    \E hooks \in HooksGiven, clear \in {UndefinedString, "false"} :
        ConstructIn("code", 1, <<>>,
                    [NoAnimationOptions EXCEPT
                        !.type = "spinToStop", !.stopAngle = 90,
                        !.clearTheCanvas = clear,
                        !.callbackFinished = hooks.callbackFinished,
                        !.callbackBefore = hooks.callbackBefore,
                        !.callbackAfter = hooks.callbackAfter],
                    0, 0, InnerRadius)

NextTween ==
    \/ StartAnimation
    \/ StartAnimationAgain
    \/ TweenUpdate
    \/ TweenComplete
    \/ DetachedTweenUpdate
    \/ DetachedTweenComplete
    \/ OtherStartAnimation
    \/ OtherTweenUpdate
    \/ OtherTweenComplete
    \/ StopAnimationCall

SpecTween == InitTween /\ [][NextTween]_vars

\* A wheel of one segment, segments of small sizes appended and deleted, and
\* the random stop angles asked for.
InitRandom == Construct(1, <<>>, 0, 0, InnerRadius)

NextRandom ==
    \/ AppendSizedSegmentCall
    \/ DeleteSegmentCall
    \/ GetRandomForSegmentCall

SpecRandom == InitRandom /\ [][NextRandom]_vars

\* A wheel that never starts an animation: segments added and deleted, the
\* indicated segment asked for, and the animation stopped, paused and resumed.
InitCalls == \E n \in 1..MaxIdx : Construct(n, <<>>, 0, 0, InnerRadius)

NextCalls ==
    \/ AddSegmentCall
    \/ DeleteSegmentCall
    \/ GetIndicatedSegmentNumberCall
    \/ StopAnimationCall
    \/ PauseAnimation
    \/ ResumeAnimation

SpecCalls == InitCalls /\ [][NextCalls]_vars

\* Wheels of every text orientation, alignment and direction, with and
\* without a fill and a stroke colour, a segment with a text added and the
\* text drawn.
TextOptionsGiven ==
    [textFontSize : {18, 20},
     textOrientation : {"horizontal", "vertical", "curved"},
     textAlignment : {"inner", "outer", "center"},
     textDirection : {"normal", "reversed"},
     textMargin : {Null, 10}, textFillStyle : {"black", NullString},
     textStrokeStyle : {"red", NullString}]

InitText ==
    \E text \in TextOptionsGiven, rot \in {0, 90} :
        ConstructWith("code", UndefinedNumber, 1, <<>>, NoAnimationOptions, text,
                      rot, 0, InnerRadius)

NextText ==
    \/ AddTextSegmentCall
    \/ DrawSegmentTextCall

SpecText == InitText /\ [][NextText]_vars

\* Two wheels, each started once at a time, their tweens run by gsap, and
\* this wheel's animation paused, resumed and stopped.
NextPair ==
    \/ StartAnimation
    \/ PauseAnimation
    \/ ResumeAnimation
    \/ TweenUpdate
    \/ TweenComplete
    \/ OtherStartAnimation
    \/ OtherTweenUpdate
    \/ OtherTweenComplete
    \/ StopAnimationCall

SpecPair == InitTween /\ [][NextPair]_vars

(* ============================ the claims =============================== *)
\* The last call ran updateSegmentSizes to its end.
BoundariesComputed ==
    /\ lastCall.op \in {"constructor", "addSegment", "deleteSegment"}
    /\ ~lastCall.threw

\* C1: after construction and after every addSegment / deleteSegment call that
\* returns, segments 1..numSegments exist, segment 1 starts at 0 and every
\* segment ends where the next one starts.
C1_Contiguous ==
    BoundariesComputed =>
        /\ \A i \in 1..numSegments : IsDefined(segments[i])
        /\ segments[1].startAngle = 0
        /\ \A i \in 1..(numSegments - 1) :
               segments[i].endAngle = segments[i + 1].startAngle

\* C1, witness: an addSegment returned on a wheel of three or more segments
\* that mixes explicit sizes with shared ones.
C1_Witness ==
    /\ lastCall.op = "addSegment" /\ ~lastCall.threw
    /\ numSegments >= 3
    /\ \E i \in 1..numSegments : segments[i].options.size = 180
    /\ \E i \in 1..numSegments : segments[i].options.size = Null

NoExplicitSize == \A i \in 1..numSegments : segments[i].options.size = Null

ExplicitSum == ArcUsed(segments, numSegments)

\* C2 as claimed: whenever no segment has an explicit size or the explicit sizes
\* sum to at most 360, the last segment ends at 360.
C2_LastEndsAt360 ==
    (BoundariesComputed /\ (NoExplicitSize \/ ExplicitSum <= Deg(360)))
        => segments[numSegments].endAngle = Deg(360)

\* C2 as amended: the last segment ends at 360 when the explicit sizes sum to
\* exactly 360, or sum to less with some segment left without a size and no
\* explicit size of 0; when every segment has a non-zero explicit size and they
\* sum to less than 360, the last segment ends at their sum.
C2_LastEndsAt360WhenShared ==
    BoundariesComputed =>
        /\ (\/ ExplicitSum = Deg(360)
            \/ /\ ExplicitSum < Deg(360)
               /\ \E i \in 1..numSegments : segments[i].options.size = Null
               /\ \A i \in 1..numSegments : segments[i].options.size # 0)
           => segments[numSegments].endAngle = Deg(360)
        /\ (/\ ExplicitSum < Deg(360)
            /\ \A i \in 1..numSegments : segments[i].options.size \notin {Null, 0})
           => segments[numSegments].endAngle = ExplicitSum

\* C2, witness: one explicit size of 180 and two segments sharing the rest.
C2_Witness ==
    /\ BoundariesComputed
    /\ numSegments = 3
    /\ segments[1].options.size = 180
    /\ segments[2].options.size = Null /\ segments[3].options.size = Null
    /\ segments[3].startAngle = Deg(270) /\ segments[3].endAngle = Deg(360)

\* C3: a wheel constructed with a per-segment options list keeps each listed
\* entry: segment i carries the options of entry i-1 and a segment given a size
\* spans exactly that size.
C3_ListedOptionsKept ==
    lastCall.op = "constructor" =>
        \A i \in 1..numSegments :
            i <= Len(optSegments) =>
                /\ segments[i].options = optSegments[i]
                /\ optSegments[i].size # Null =>
                       segments[i].endAngle - segments[i].startAngle
                           = Deg(optSegments[i].size)

\* The last call tested the point at the mid-angle and mid-radius of segment i.
AtMidPointOf(i) ==
    /\ lastCall.a1 = ScreenAngle(MidAngle(segments[i]), rotationAngle)
    /\ lastCall.a2 = MidRadius(innerRadius, outerRadius)

C5_OutsideRingIsNull ==
    (/\ lastCall.op \in {"getSegmentNumberAt", "getSegmentAt"}
     /\ (lastCall.a2 < innerRadius \/ lastCall.a2 > outerRadius))
        => /\ ~lastCall.threw
           /\ lastCall.ret = Null
           /\ lastCall.op = "getSegmentAt" => lastCall.seg = NullSegment

\* C5, witness: getSegmentAt was asked for a point inside the hole of a
\* rotated wheel, at an angle that a segment covers.
C5_Witness ==
    /\ lastCall.op = "getSegmentAt"
    /\ lastCall.a2 = innerRadius - 1
    /\ rotationAngle = 37
    /\ numSegments >= 2
    /\ lastCall.seg = NullSegment

\* C6: getRotationPosition returns r with 0 <= r < 360 for every rotation.
C6_RotationInRange ==
    lastCall.op = "getRotationPosition" =>
        (0 <= lastCall.ret /\ lastCall.ret < 360)

\* C7: rotation normalisation is periodic in 360 and idempotent.
C7_RotationPeriodic ==
    lastCall.op = "getRotationPosition" =>
        /\ \A k \in -2..2 :
               lastCall.ret = GetRotationPosition(rotationAngle + 360 * k)
        /\ GetRotationPosition(lastCall.ret) = lastCall.ret

\* The boundaries of the wheel cover 0..360.
CoversCircle ==
    /\ \A i \in 1..numSegments : IsDefined(segments[i])
    /\ segments[1].startAngle = 0
    /\ segments[numSegments].endAngle >= Deg(360)

\* The first segment whose [startAngle, endAngle] contains the angle, 0 if none.
FirstContaining(angle) ==
    LET hits == {i \in 1..numSegments :
                   /\ segments[i].startAngle <= Deg(angle)
                   /\ Deg(angle) <= segments[i].endAngle}
    IN IF hits = {} THEN 0 ELSE CHOOSE i \in hits : \A j \in hits : i <= j

\* C8: on a wheel whose boundaries cover 0..360, getIndicatedSegmentNumber
\* returns the index of the first segment that contains the pointer angle less
\* the normalised rotation, never 0, and getIndicatedSegment that segment.
C8_IndicatedIsFirstContaining ==
    (/\ lastCall.op \in {"getIndicatedSegmentNumber", "getIndicatedSegment"}
     /\ CoversCircle)
        => /\ ~lastCall.threw
           /\ lastCall.ret # 0
           /\ lastCall.ret = FirstContaining(RelativeAngle(pointerAngle, rotationAngle))
           /\ lastCall.op = "getIndicatedSegment"
                  => lastCall.seg = segments[lastCall.ret]

\* C9: for a clockwise spinToStop with a stopAngle, computeAnimation sets the
\* tween target to spins * 360 + (360 - stopAngle + pointerAngle) on the
\* property rotationAngle, spins being 5 when not given.
C9_SpinToStopTarget ==
    [][(/\ lastCall'.op \in {"computeAnimation", "startAnimation"}
        /\ animation.type = "spinToStop"
        /\ animation.direction = "clockwise"
        /\ animation.stopAngle # Null)
         => /\ animation'.propertyName = "rotationAngle"
            /\ animation'.propertyValue =
                   (IF animation.spins = Null THEN 5 ELSE animation.spins) * 360
                   + (360 - animation.stopAngle + pointerAngle)]_vars

\* C9, witness: spins defaulted to 5, stopAngle 90, pointerAngle 0 gave 2070.
C9_Witness ==
    /\ lastCall.op = "startAnimation"
    /\ animation.type = "spinToStop" /\ animation.direction = "clockwise"
    /\ animation.stopAngle = 90 /\ pointerAngle = 0
    /\ animation.spins = 5
    /\ animation.propertyValue = 2070

\* C10: once a spinToStop tween has run to completion the rotation of the
\* wheel is the tween target, getRotationPosition returns the target
\* normalised, and the indicated segment contains the stop angle.
C10_RotationIsTarget ==
    (tween.state = "done" /\ animation.type = "spinToStop") =>
        /\ rotationAngle = animation.propertyValue
        /\ lastCall.op = "getRotationPosition"
               => lastCall.ret = animation.propertyValue % 360
        /\ (lastCall.op = "getIndicatedSegmentNumber" /\ animation.stopAngle # Null)
               => /\ lastCall.ret \in 1..numSegments
                  /\ segments[lastCall.ret].startAngle <= Deg(animation.stopAngle)
                  /\ Deg(animation.stopAngle) <= segments[lastCall.ret].endAngle

(* ------------------------------ animation ------------------------------ *)
\* The caller left repeat, easing and yoyo out of the animation options.
RestUnspecified ==
    /\ optAnimation.repeat = UndefinedNumber
    /\ optAnimation.easing = UndefinedString
    /\ optAnimation.yoyo = UndefinedString

\* C11: when the caller's animation options leave out repeat, easing and
\* yoyo, computeAnimation leaves a spinOngoing with repeat -1 and linear
\* easing, a spinToStop with repeat 0 and easing Power4.easeOut, a spinAndBack
\* with repeat 1, yoyo true and easing Power2.easeInOut, and a custom
\* animation with no derived value.
C11_TypeDefaultsApplied ==
    (lastCall.op \in {"computeAnimation", "startAnimation"} /\ RestUnspecified)
      => /\ animation.type = "spinOngoing"
              => animation.repeat = -1 /\ animation.easing = "Linear.easeNone"
         /\ animation.type = "spinToStop"
              => animation.repeat = 0 /\ animation.easing = "Power4.easeOut"
         /\ animation.type = "spinAndBack"
              => /\ animation.repeat = 1
                 /\ animation.yoyo = "true"
                 /\ animation.easing = "Power2.easeInOut"
         /\ animation.type = "custom"
              => /\ animation.propertyName = NullString
                 /\ animation.propertyValue = Null

\* What a tick is to do on this wheel for the animation options the caller
\* gave: clear unless clearTheCanvas is false, the before-draw hook if given,
\* the draw, the after-draw hook if given.
TickOf(o) ==
    (IF o.clearTheCanvas # "false" THEN <<Event("clear", "wheel")>> ELSE <<>>)
    \o (IF NotNull(o.callbackBefore)
        THEN <<Event("callbackBefore", "wheel")>> ELSE <<>>)
    \o <<Event("draw", "wheel")>>
    \o (IF NotNull(o.callbackAfter)
        THEN <<Event("callbackAfter", "wheel")>> ELSE <<>>)

\* C12: every tick of the wheel's animation clears the canvas unless the
\* animation options set clearTheCanvas to false, then runs the before-draw
\* hook if one was given, then redraws the wheel, then runs the after-draw
\* hook if one was given.
C12_TickInOrder ==
    (lastCall.op = "winwheelAnimationLoop"
     /\ winwheelToDrawDuringAnimation = "wheel")
      => effects = TickOf(optAnimation)

\* The number of times the finished hook of this wheel ran in the last call.
FinishedRuns ==
    Cardinality({i \in 1..Len(effects) :
                    effects[i] = Event("callbackFinished", "wheel")})

\* C13: when the animation of a wheel that was given a finished hook runs to
\* its end, and when stopAnimation(true) is called while it runs, the hook is
\* run exactly once.
C13_FinishedHookOnce ==
    (/\ NotNull(optAnimation.callbackFinished)
     /\ \/ lastCall.op = "winwheelStopAnimation"
        \/ (lastCall.op = "stopAnimation" /\ lastCall.a1 = 1 /\ lastCall.a2 = 1))
      => FinishedRuns = 1

\* C14: stopAnimation(false) on a wheel whose animation is running kills
\* that wheel's tween, so that no tick of it follows, and does not run the
\* finished hook.
C14_StopKillsOwnTween ==
    (lastCall.op = "stopAnimation" /\ lastCall.a1 = 0 /\ lastCall.a2 = 1)
      => /\ ~lastCall.threw
         /\ tween.state # "running"
         /\ ~TicksOn(tween) /\ ~TicksLast(tween)
         /\ FinishedRuns = 0

\* The tweens of this wheel that gsap is running.
RunningTweens == (IF tween.state = "running" THEN 1 ELSE 0) + Len(detached)

\* C15: a wheel has at most one running tween: startAnimation on a wheel
\* whose tween is running cancels that tween before the new one starts.
C15_OneRunningTween == RunningTweens <= 1

(* ---------------------- addSegment, deleteSegment ---------------------- *)
\* The options of segments 1..n, in order.
OptionsOf(segs, n) == [i \in 1..n |-> segs[i].options]

\* Segments 1..n are all defined.
AllDefined(segs, n) == \A i \in 1..n : IsDefined(segs[i])

\* The boundaries of segments 1..n chain from 0.
Chained(segs, n) ==
    /\ segs[1].startAngle = 0
    /\ \A i \in 2..n : segs[i].startAngle = segs[i - 1].endAngle

\* C16: addSegment(options, p) with 1 <= p <= numSegments returns normally,
\* leaves the segments below p in place, moves those at p and above up by
\* one in order, puts the new segment at p and returns it, adds one to
\* numSegments and recomputes the boundaries; without a position the new
\* segment is appended at numSegments + 1.
C16_AddSegmentInserts ==
    [][(/\ lastCall'.op = "addSegment"
        /\ AllDefined(segments, numSegments)
        /\ lastCall'.a1 \in (1..numSegments) \cup {NoPosition})
         => LET p == IF lastCall'.a1 = NoPosition THEN numSegments + 1
                     ELSE lastCall'.a1
            IN /\ ~lastCall'.threw
               /\ numSegments' = numSegments + 1
               /\ AllDefined(segments', numSegments')
               /\ \A i \in 1..(p - 1) :
                      segments'[i].options = segments[i].options
               /\ \A i \in p..numSegments :
                      segments'[i + 1].options = segments[i].options
               /\ lastCall'.ret = p
               /\ lastCall'.seg = segments'[p]
               /\ Chained(segments', numSegments')]_vars

\* C17: on a wheel of more than one segment deleteSegment(p), 1 <= p <=
\* numSegments, drops the options of segment p, moves the options above p
\* down by one in order, takes one from numSegments and recomputes the
\* boundaries; and addSegment(o, p) followed by deleteSegment(p) gives back
\* the sequence of options the wheel had.
C17_DeleteInvertsAdd ==
    AllDefined(segments, numSegments) =>
        /\ \A p \in 1..numSegments :
             numSegments > 1 =>
               LET d == DeleteSegmentResult(segments, numSegments, segLength, p)
               IN /\ ~d.threw
                  /\ d.n = numSegments - 1
                  /\ \A i \in 1..(p - 1) : d.segs[i].options = segments[i].options
                  /\ \A i \in p..(numSegments - 1) :
                         d.segs[i].options = segments[i + 1].options
                  /\ Chained(d.segs, d.n)
        /\ \A p \in 1..numSegments, o \in CallerOptions :
             numSegments < MaxSegs =>
               LET a == AddSegmentResult(segments, numSegments, segLength, o, p)
                   d == DeleteSegmentResult(a.segs, a.n, a.len, p)
               IN /\ ~a.threw
                  /\ ~d.threw
                  /\ d.n = numSegments
                  /\ OptionsOf(d.segs, d.n) = OptionsOf(segments, numSegments)

\* C18: deleteSegment on a wheel of one segment changes nothing, and after
\* any sequence of addSegment and deleteSegment calls numSegments >= 1 and
\* segments 1..numSegments are all defined.
C18_AtLeastOneSegment ==
    /\ numSegments >= 1
    /\ AllDefined(segments, numSegments)
    /\ numSegments = 1 =>
         \A p \in PositionArgs :
           LET d == DeleteSegmentResult(segments, numSegments, segLength, p)
           IN ~d.threw /\ d.n = numSegments /\ d.segs = segments

(* ------------------------- getRandomForSegment ------------------------- *)
\* The segment getRandomForSegment was asked about exists.
AskedSegmentExists ==
    /\ lastCall.a1 \in Positions
    /\ IsDefined(segments[lastCall.a1])

\* endAngle - startAngle of that segment.
AskedSpan == segments[lastCall.a1].endAngle - segments[lastCall.a1].startAngle

\* The angle returned lies at least 1 degree inside the segment asked about.
ReturnedInside ==
    /\ lastCall.ret >= segments[lastCall.a1].startAngle + Deg(1)
    /\ lastCall.ret <= segments[lastCall.a1].endAngle - Deg(1)

\* C19 as claimed: getRandomForSegment(n) returns an angle at least 1 degree
\* inside segment n when the segment spans 2 degrees or more, and 0 when it
\* spans less, when n is 0 or missing and when segment n does not exist; it
\* never throws.
C19_RandomInsideFromTwoDegrees ==
    lastCall.op = "getRandomForSegment" =>
        /\ ~lastCall.threw
        /\ IF AskedSegmentExists /\ AskedSpan >= Deg(2)
           THEN ReturnedInside
           ELSE lastCall.ret = 0

\* C19, amended: getRandomForSegment(n) returns an angle at least 1 degree
\* inside segment n when the segment spans more than 2 degrees, and 0 when it
\* spans 2 degrees or less, when n is 0 or missing and when segment n does
\* not exist; it never throws.
C19_RandomInsideAboveTwoDegrees ==
    lastCall.op = "getRandomForSegment" =>
        /\ ~lastCall.threw
        /\ IF AskedSegmentExists /\ AskedSpan > Deg(2)
           THEN ReturnedInside
           ELSE lastCall.ret = 0

\* C19, witness: a segment of between 2 and 3 degrees gave the one angle it
\* can give, 1 degree after its start.
C19_Witness ==
    /\ lastCall.op = "getRandomForSegment"
    /\ AskedSegmentExists
    /\ AskedSpan > Deg(2) /\ AskedSpan < Deg(3)
    /\ lastCall.ret = segments[lastCall.a1].startAngle + Deg(1)

(* ---------------------------- segment images --------------------------- *)
\* The wheel was constructed in segmentImage mode with an image listed for
\* every one of its segments.
AllImagesListed ==
    /\ drawMode = "segmentImage"
    /\ Len(optSegments) >= numSegments
    /\ \A i \in 1..numSegments : optSegments[i].image # NullString

\* The image of every segment is loaded.
AllImagesReady ==
    \A i \in 1..numSegments : segments[i].options.imgData = "loaded"

\* The number of times the wheel was drawn.
Draws ==
    Cardinality({i \in 1..Len(effects) : effects[i] = Event("draw", "wheel")})

\* C20: a wheel constructed in segmentImage mode with an image for every
\* segment has each image loading or ready, is not drawn while an image is
\* not ready, and is drawn exactly once when the last one is.
C20_DrawnOnceImagesReady ==
    AllImagesListed =>
        /\ \A i \in 1..numSegments :
               segments[i].options.imgData \in {"loading", "loaded"}
        /\ Draws = IF AllImagesReady THEN 1 ELSE 0

(* C21: no public call raises an exception: addSegment with a position in  *)
(* 1..numSegments or without one, deleteSegment, getIndicatedSegmentNumber  *)
(* (also after a deleteSegment), and stopAnimation, pauseAnimation and      *)
(* resumeAnimation on a wheel that never started an animation (also when    *)
(* called twice) each return normally.                                      *)
NeverStarted == tween.state = "none"

C21_NoCallThrows ==
    /\ lastCall.op = "addSegment"
         /\ (lastCall.a1 = NoPosition \/ lastCall.a1 \in 1..lastCall.a2)
         => ~lastCall.threw
    /\ lastCall.op \in {"deleteSegment", "getIndicatedSegmentNumber"}
         => ~lastCall.threw
    /\ lastCall.op \in {"stopAnimation", "pauseAnimation", "resumeAnimation"}
         /\ NeverStarted
         => ~lastCall.threw

(* C22: with two wheels A (this wheel) and B (the second wheel), after     *)
(* A.startAnimation() and then B.startAnimation() every tick and completion *)
(* callback of either tween acts on B only, and A.stopAnimation() cancels   *)
(* B's tween and not A's.                                                   *)
SecondStartedLast ==
    winwheelToDrawDuringAnimation = "other" /\ tween.state # "none"

CallbackOps == {"winwheelAnimationLoop", "winwheelStopAnimation",
                "other.winwheelAnimationLoop", "other.winwheelStopAnimation"}

C22_LastStartedWheelOnly ==
    [][SecondStartedLast =>
         /\ lastCall'.op \in CallbackOps =>
               /\ Event("draw", "other") \in {effects'[i] : i \in DOMAIN effects'}
               /\ \A i \in DOMAIN effects' : effects'[i].on = "other"
         /\ lastCall'.op = "stopAnimation" =>
               /\ tween'.state = tween.state
               /\ otherTween' # "running"]_vars

\* A.stopAnimation() left A's tween running and killed B's.
C22_Witness ==
    /\ lastCall.op = "stopAnimation"
    /\ tween.state = "running"
    /\ otherTween = "killed"

(* C23: a hit-test angle lying exactly on a boundary shared by two segments *)
(* resolves to the lower-numbered of them, for every shared boundary, the   *)
(* boundary at 0 / 360 between the last and the first segment included (a   *)
(* point straight above the centre at rotation 0 resolves to segment 1).    *)
\* The angle on the wheel (0 <= angle < 360) that shows at screen angle phi.
WheelAngle(phi, rot) == (phi - Deg(rot)) % Deg(360)

\* The segments that start or end at the angle, 0 and 360 being one angle.
SharingBoundary(angle) ==
    {i \in 1..numSegments :
        \/ segments[i].startAngle % Deg(360) = angle
        \/ segments[i].endAngle % Deg(360) = angle}

InsideRing ==
    /\ lastCall.a2 >= innerRadius
    /\ lastCall.a2 <= outerRadius

C23_BoundaryResolvesToEarlier ==
    (/\ lastCall.op = "getSegmentNumberAt"
     /\ CoversCircle
     /\ segments[numSegments].endAngle = Deg(360)
     /\ InsideRing)
        => LET sharing == SharingBoundary(WheelAngle(lastCall.a1, rotationAngle))
           IN Cardinality(sharing) >= 2
                => /\ ~lastCall.threw
                   /\ lastCall.ret \in sharing
                   /\ \A j \in sharing : lastCall.ret <= j

(* C24: for every text draw command in every orientation, alignment and    *)
(* direction, when both a fill and a stroke colour are set the filled text  *)
(* is drawn before the stroked text, except for outer-aligned horizontal    *)
(* text, where the stroke is drawn before the fill.                         *)
TextDrawn == lastCall.op = "drawSegmentText" /\ ~lastCall.threw

FillAndStrokeSet ==
    StyleSet(textOptions.textFillStyle) /\ StyleSet(textOptions.textStrokeStyle)

\* Commands j and k draw the same piece of text.
SamePiece(j, k) ==
    /\ effects[j].line = effects[k].line
    /\ effects[j].c = effects[k].c

StrokeFirstClaimed ==
    textOptions.textOrientation = "horizontal" /\ textOptions.textAlignment = "outer"

C24_FillBeforeStroke ==
    (TextDrawn /\ FillAndStrokeSet) =>
        \A j \in DOMAIN effects, k \in DOMAIN effects :
            (/\ SamePiece(j, k)
             /\ effects[j].what = "fillText"
             /\ effects[k].what = "strokeText")
                => IF StrokeFirstClaimed THEN k < j ELSE j < k

(* C25: for curved text aligned inner, in either direction and with a      *)
(* margin that is not negative, every line of the text, the last included,  *)
(* is placed at a distance from the wheel centre of at least innerRadius;   *)
(* for curved text aligned outer every line is placed at a distance of at   *)
(* most outerRadius.                                                        *)
CurvedTextDrawn ==
    /\ TextDrawn
    /\ textOptions.textOrientation = "curved"
    /\ ToNumber(textOptions.textMargin) >= 0

\* The distance from the centre at which command j puts its text.
DistanceOf(j) == Abs(effects[j].y)

SpanOf(i) == segments[i].endAngle - segments[i].startAngle

WithoutSize == {i \in 1..numSegments : segments[i].options.size = Null}

SizesOverfull == BoundariesComputed /\ ExplicitSum > Deg(360)

C26_NegativeShareKept ==
    SizesOverfull =>
        \A i \in WithoutSize :
            /\ SpanOf(i) * Cardinality(WithoutSize) = Deg(360) - ExplicitSum
            /\ segments[i].endAngle < segments[i].startAngle

\* C26 as amended: when the explicit sizes sum to more than 360 nothing is
\* shared out: each segment without an explicit size spans 0 degrees (its
\* endAngle equals its startAngle), and the segments with an explicit size
\* keep it, so that the last segment ends at the sum, past 360.
C26_NoShareWhenOverfull ==
    SizesOverfull =>
        /\ \A i \in WithoutSize : segments[i].endAngle = segments[i].startAngle
        /\ \A i \in 1..numSegments :
               segments[i].options.size \notin {Null, 0}
                   => SpanOf(i) = Deg(segments[i].options.size)
        /\ segments[numSegments].endAngle = ExplicitSum

\* C26, witness: sizes 180 and 359 and a third segment without a size, which
\* starts and ends at 539.
C26_Witness ==
    /\ SizesOverfull
    /\ numSegments = 3
    /\ segments[1].options.size = 180
    /\ segments[2].options.size = 359
    /\ segments[3].options.size = Null
    /\ segments[3].startAngle = Deg(539)
    /\ segments[3].endAngle = Deg(539)

(* C27: spinAndBack derives its internal stop angle as spinToStop does: for *)
(* a specified stopAngle it is 360 - stopAngle + pointerAngle, for an         *)
(* unspecified one a random integer in 0..359; the tween target is           *)
(* spins * 360 plus that value.                                              *)
SpinAndBackComputed ==
    /\ lastCall'.op \in {"computeAnimation", "startAnimation"}
    /\ animation.type = "spinAndBack"

SpinsOf(a) == IF a.spins = Null THEN 5 ELSE a.spins

C27_SpinAndBackAsSpinToStop ==
    [][SpinAndBackComputed =>
         /\ IF animation.stopAngle # Null
            THEN animation'.stopAngleInternal =
                     360 - animation.stopAngle + pointerAngle
            ELSE animation'.stopAngleInternal \in 0..359
         /\ animation'.propertyValue =
                SpinsOf(animation) * 360 + animation'.stopAngleInternal]_vars

\* C27 as amended: for a specified stopAngle the internal value of a
\* spinAndBack is 360 - stopAngle, the pointer angle not added, and for an
\* unspecified one it is 0; the tween target is spins * 360 plus that value
\* for a clockwise spin, and -(spins * 360) - (360 - that value) for an
\* anti-clockwise one.
C27_SpinAndBackOwnStopAngle ==
    [][SpinAndBackComputed =>
         /\ animation'.stopAngleInternal =
                (IF animation.stopAngle # Null THEN 360 - animation.stopAngle
                 ELSE 0)
         /\ animation'.propertyValue =
                (IF animation.direction = "anti-clockwise"
                 THEN 0 - SpinsOf(animation) * 360
                      - (360 - animation'.stopAngleInternal)
                 ELSE SpinsOf(animation) * 360
                      + animation'.stopAngleInternal)]_vars

\* C27, witness: a clockwise spinAndBack, spins defaulted to 5, stopAngle 90
\* and pointerAngle 90, was given the internal stop angle 270 and target 2070.
C27_Witness ==
    /\ lastCall.op = "startAnimation"
    /\ animation.type = "spinAndBack" /\ animation.direction = "clockwise"
    /\ animation.stopAngle = 90 /\ pointerAngle = 90
    /\ animation.spins = 5
    /\ animation.stopAngleInternal = 270
    /\ animation.propertyValue = 2070

(* C28: for curved text each line of n characters produces exactly n        *)
(* character draw commands, one per character of the line: the normal        *)
(* direction visits characters 0..n-1 in order and the reversed direction    *)
(* the same n characters in reverse order, the first command being drawn at  *)
(* the line's starting angle.                                                *)
\* The segment that carries the text, and the lines of it.
TextSegment == segments[numSegments]

LinesDrawn == Split(TextSegment.options.text)

\* The commands of one kind that drew line i (from 0), in the order issued.
CommandsOf(what, i) ==
    LET OfLine(e) == e.what = what /\ e.line = i
    IN SelectSeq(effects, OfLine)

\* The angle at which the first character of a line of the length is to be
\* drawn.
StartingAngle(length) ==
    DrawAngle(TextSegment, textOptions, length,
              CurvedRadius(textOptions, Len(LinesDrawn), innerRadius, outerRadius),
              rotationAngle)

C28_OneCommandPerCharacter ==
    (/\ TextDrawn
     /\ numSegments = 2
     /\ textOptions.textOrientation = "curved"
     /\ StyleSet(textOptions.textFillStyle))
        => \A i \in 0..(Len(LinesDrawn) - 1) :
               LET line == LinesDrawn[i + 1]
                   n == Len(line)
                   commands == CommandsOf("fillText", i)
               IN /\ Len(commands) = n
                  /\ \A k \in 1..n :
                        /\ k <= Len(commands)
                        /\ commands[k].text =
                               <<line[IF textOptions.textDirection = "reversed"
                                      THEN n + 1 - k ELSE k]>>
                  /\ n > 0 => /\ Len(commands) > 0
                              /\ commands[1].angle = StartingAngle(n)

(* C29: draw() called with no argument clears the canvas before drawing,   *)
(* exactly as draw(true) does; only draw(false) leaves the canvas content   *)
(* in place.                                                                *)
DrawCalledWith(clearTheCanvas) ==
    lastCall.op = "draw" /\ lastCall.a1 = clearTheCanvas

Cleared == Event("clear", "wheel") \in {effects[i] : i \in DOMAIN effects}

C29_DrawClearsByDefault ==
    /\ DrawCalledWith(UndefinedString) => Cleared
    /\ DrawCalledWith("true") => Cleared
    /\ DrawCalledWith("false") => ~Cleared

(* C30: in code draw mode the constructor draws the wheel during            *)
(* construction both when autoDraw is omitted and when it is true; in image *)
(* and segmentImage draw modes an omitted autoDraw means no draw and an     *)
(* explicit true means the wheel is drawn during construction.              *)
ConstructedWith(mode, autoDraw) ==
    /\ lastCall.op = "constructor"
    /\ drawMode = mode
    /\ lastCall.a2 = autoDraw

Drawn == Event("draw", "wheel") \in {effects[i] : i \in DOMAIN effects}

C30_AutoDraw ==
    /\ ConstructedWith("code", UndefinedNumber) => Drawn
    /\ ConstructedWith("code", 1) => Drawn
    /\ \A mode \in {"image", "segmentImage"} :
          /\ ConstructedWith(mode, UndefinedNumber) => ~Drawn
          /\ ConstructedWith(mode, 1) => Drawn

====
